---- MODULE Spec2Model ----
(***************************************************************************)
(* Model of the MD <-> IPYNB synchronisation tool (.synctool/src).         *)
(*                                                                         *)
(* Time is counted in ticks of 0.1 s: modification times, the clock, the   *)
(* debounce delay, the poll interval and the proximity thresholds are all  *)
(* expressed in that unit (debounce_delay 0.8 s = 8, time_threshold        *)
(* default 3 s = 30, ...).                                                 *)
(*                                                                         *)
(* Tree A is the Markdown directory ("md"), tree B the notebook directory  *)
(* ("ipynb").  A document is identified by its tree and its relative path  *)
(* without extension.                                                      *)
(***************************************************************************)
EXTENDS Integers, Sequences, FiniteSets, TLC

----------------------------------------------------------------------------
(* Program constants, in ticks of 0.1 s *)

debounce_delay == 8
watch_interval == 10
poll_interval == 20
sync_timeout == 50
EngineDefaultThreshold == 30
CheckerDefaultThreshold == 50

(* Bounds of the model *)

StartTime == 50
MaxTime == 120
TickStep == 10
MaxEdits == 1
MaxFailures == 1
MaxBurstEdits == 2

Rels == {"x", "y"}
RelOrder == <<"x", "y">>
InitMtimes == {0, 20, 50}
Sizes == {1, 2}
Thresholds == {[set |-> FALSE, value |-> 0], [set |-> TRUE, value |-> 40]}
Policies == {"newer", "md", "ipynb"}

----------------------------------------------------------------------------
(* Paths and files *)

Trees == {"md", "ipynb"}
Paths == [tree : Trees, rel : Rels]

Path(t, r) == [tree |-> t, rel |-> r]

OtherTree(t) == IF t = "md" THEN "ipynb" ELSE "md"

\* the mirror path of a document: same relative path, other root and suffix
Mirror(p) == [tree |-> OtherTree(p.tree), rel |-> p.rel]

NoFile == [exists |-> FALSE, mtime |-> 0, size |-> 0]
File(m, s) == [exists |-> TRUE, mtime |-> m, size |-> s]

Abs(n) == IF n < 0 THEN 0 - n ELSE n

VARIABLES
    config,            \* conflict_resolution, time_threshold, delete_orphaned
    now,               \* time.time()
    fs,                \* the two directory trees: path -> file
    pc,                \* position of main()
    scanned,           \* md_files / ipynb_files of the last check_consistency
    sync_actions,      \* plan returned by the last check_consistency
    todo,              \* actions of the plan perform_initial_sync has not run yet
    recently_synced,   \* SyncEngine.recently_synced
    watching,          \* observers started
    file_states,       \* FileWatcher.file_states
    obs_snap,          \* snapshots kept by the two polling observers
    pending_events,    \* FileWatcher.pending_events
    processed_deletes, \* SyncFileHandler.processed_deletes, per handler
    last_poll_time,
    last_cleanup_time,
    wake,              \* end of the main loop's current sleep
    current_time,      \* current_time of the running process_pending_events
    pending_copy,      \* pending_events_copy of the running drain
    handled,           \* paths of the copy whose loop body has run
    edits,             \* number of external edits so far
    failures,          \* number of conversion failures so far
    lastOp,            \* what the last step did to the trees (history)
    written,           \* per path: the engine's last write of it, forgotten
                       \* at the next external edit (history)
    guard_time,        \* per path: when it last entered recently_synced (history)
    last_edit,         \* the last external edit (history)
    changed_files,     \* changed_files of the running check_files_changes
    burst              \* per path: the notifications since the last drain
                       \* ended (history)

vars == <<config, now, fs, pc, scanned, sync_actions, todo, recently_synced,
          watching, file_states, obs_snap, pending_events, processed_deletes,
          last_poll_time, last_cleanup_time, wake, current_time, pending_copy,
          handled, edits, failures, lastOp, written, guard_time,
          last_edit, changed_files, burst>>

----------------------------------------------------------------------------
(* ConfigManager.get(key, default) for the keys the engine reads *)

\* ignore_patterns is kept as the set of relative paths that one of the
\* configured patterns matches, by the basename of the file or by the name
\* of a directory above it
\* mode is the operation mode given on the command line (args.check_only,
\* args.sync_once, args.dry_run; "watch" when none is given)
Modes == {"watch", "check_only", "sync_once", "dry_run"}

Configs == [conflict_resolution : Policies,
            time_threshold : Thresholds,
            delete_orphaned : BOOLEAN,
            ignore_patterns : {{}},
            mode : {"watch"}]

\* self.config.get('time_threshold', 5) in check_consistency
CheckerThreshold(cfg) ==
    IF cfg.time_threshold.set THEN cfg.time_threshold.value
    ELSE CheckerDefaultThreshold

\* self.config.get('time_threshold', 3) in sync_md_to_ipynb / sync_ipynb_to_md
EngineThreshold(cfg) ==
    IF cfg.time_threshold.set THEN cfg.time_threshold.value
    ELSE EngineDefaultThreshold

----------------------------------------------------------------------------
(* ConsistencyChecker *)

\* is_ignored, applied by scan_directory to the directories above a file
\* (pruned from the walk) and to the file itself
IsIgnored(p) == p.rel \in config.ignore_patterns

\* scan_directory: relative path -> file information
ScanDirectory(tree, fsys) ==
    [r \in Rels |->
        IF IsIgnored(Path(tree, r))
        THEN [present |-> FALSE, mtime |-> 0]
        ELSE [present |-> fsys[Path(tree, r)].exists,
              mtime |-> fsys[Path(tree, r)].mtime]]

NoScan == [r \in Rels |-> [present |-> FALSE, mtime |-> 0]]

SyncAction(src, dst, rp) == [source |-> src, target |-> dst, rel_path |-> rp]

\* MdDecision with the time difference taken without abs()
MdDecisionSigned(r, mdf, ipf, cfg) ==
    IF ~mdf[r].present THEN "none"
    ELSE IF ipf[r].present
    THEN LET md_mtime == mdf[r].mtime
             ipynb_mtime == ipf[r].mtime
             time_diff == md_mtime - ipynb_mtime
         IN  IF time_diff < CheckerThreshold(cfg) THEN "none"
             ELSE IF md_mtime > ipynb_mtime \/ cfg.conflict_resolution = "md"
                  THEN "md_to_ipynb"
             ELSE IF md_mtime < ipynb_mtime \/ cfg.conflict_resolution = "ipynb"
                  THEN "ipynb_to_md"
             ELSE "none"
    ELSE "md_to_ipynb"

\* first loop of check_consistency, body for one entry of md_files
\* MdDecision that leaves a document without a mirror out of the plan
MdDecisionNoNewFile(r, mdf, ipf, cfg) ==
    IF ~mdf[r].present THEN "none"
    ELSE IF ipf[r].present
    THEN LET md_mtime == mdf[r].mtime
             ipynb_mtime == ipf[r].mtime
             time_diff == Abs(md_mtime - ipynb_mtime)
         IN  IF time_diff < CheckerThreshold(cfg) THEN "none"
             ELSE IF md_mtime > ipynb_mtime \/ cfg.conflict_resolution = "md"
                  THEN "md_to_ipynb"
             ELSE IF md_mtime < ipynb_mtime \/ cfg.conflict_resolution = "ipynb"
                  THEN "ipynb_to_md"
             ELSE "none"
    ELSE "none"

MdDecision(r, mdf, ipf, cfg) ==
    IF ~mdf[r].present THEN "none"
    ELSE IF ipf[r].present
    THEN LET md_mtime == mdf[r].mtime
             ipynb_mtime == ipf[r].mtime
             time_diff == Abs(md_mtime - ipynb_mtime)
         IN  IF time_diff < CheckerThreshold(cfg) THEN "none"
             ELSE IF md_mtime > ipynb_mtime \/ cfg.conflict_resolution = "md"
                  THEN "md_to_ipynb"
             ELSE IF md_mtime < ipynb_mtime \/ cfg.conflict_resolution = "ipynb"
                  THEN "ipynb_to_md"
             ELSE "none"
    ELSE "md_to_ipynb"

\* IpynbDecision looking the mirror up in the wrong scan
IpynbDecisionWrongScan(r, mdf, ipf) ==
    IF ipf[r].present /\ ~ipf[r].present THEN "ipynb_to_md" ELSE "none"

\* second loop of check_consistency, body for one entry of ipynb_files
IpynbDecision(r, mdf, ipf) ==
    IF ipf[r].present /\ ~mdf[r].present THEN "ipynb_to_md" ELSE "none"

RelSeq(Keep(_)) == SelectSeq(RelOrder, Keep)

MapSeq(s, F(_)) == [i \in 1..Len(s) |-> F(s[i])]

SeqRange(s) == {s[i] : i \in 1..Len(s)}

\* check_consistency when the orphan loops do not look the file up in the
\* lists of the plan
CheckConsistencyAllOrphans(mdf, ipf, cfg) ==
    LET fwd == MapSeq(RelSeq(LAMBDA r : MdDecision(r, mdf, ipf, cfg) = "md_to_ipynb"),
                      LAMBDA r : SyncAction(Path("md", r), Path("ipynb", r), Path("md", r)))
        rev1 == MapSeq(RelSeq(LAMBDA r : MdDecision(r, mdf, ipf, cfg) = "ipynb_to_md"),
                       LAMBDA r : SyncAction(Path("ipynb", r), Path("md", r), Path("ipynb", r)))
        rev2 == MapSeq(RelSeq(LAMBDA r : IpynbDecision(r, mdf, ipf) = "ipynb_to_md"),
                       LAMBDA r : SyncAction(Path("ipynb", r), Path("md", r), Path("ipynb", r)))
        rev == rev1 \o rev2
        orphMd == IF cfg.delete_orphaned
                  THEN MapSeq(RelSeq(LAMBDA r : mdf[r].present /\ ~ipf[r].present),
                              LAMBDA r : Path("md", r))
                  ELSE << >>
        orphIp == IF cfg.delete_orphaned
                  THEN MapSeq(RelSeq(LAMBDA r : ipf[r].present /\ ~mdf[r].present),
                              LAMBDA r : Path("ipynb", r))
                  ELSE << >>
    IN  [md_to_ipynb |-> fwd, ipynb_to_md |-> rev,
         orphaned_md |-> orphMd, orphaned_ipynb |-> orphIp]

\* check_consistency on the two scans
CheckConsistency(mdf, ipf, cfg) ==
    LET fwd == MapSeq(RelSeq(LAMBDA r : MdDecision(r, mdf, ipf, cfg) = "md_to_ipynb"),
                      LAMBDA r : SyncAction(Path("md", r), Path("ipynb", r), Path("md", r)))
        rev1 == MapSeq(RelSeq(LAMBDA r : MdDecision(r, mdf, ipf, cfg) = "ipynb_to_md"),
                       LAMBDA r : SyncAction(Path("ipynb", r), Path("md", r), Path("ipynb", r)))
        rev2 == MapSeq(RelSeq(LAMBDA r : IpynbDecision(r, mdf, ipf) = "ipynb_to_md"),
                       LAMBDA r : SyncAction(Path("ipynb", r), Path("md", r), Path("ipynb", r)))
        rev == rev1 \o rev2
        orphMd == IF cfg.delete_orphaned
                  THEN MapSeq(RelSeq(LAMBDA r :
                                  /\ mdf[r].present
                                  /\ ~ipf[r].present
                                  /\ ~\E a \in SeqRange(fwd) : a.rel_path = Path("md", r)),
                              LAMBDA r : Path("md", r))
                  ELSE << >>
        orphIp == IF cfg.delete_orphaned
                  THEN MapSeq(RelSeq(LAMBDA r :
                                  /\ ipf[r].present
                                  /\ ~mdf[r].present
                                  /\ ~\E a \in SeqRange(rev) : a.rel_path = Path("ipynb", r)),
                              LAMBDA r : Path("ipynb", r))
                  ELSE << >>
    IN  [md_to_ipynb |-> fwd, ipynb_to_md |-> rev,
         orphaned_md |-> orphMd, orphaned_ipynb |-> orphIp]

EmptyPlan == [md_to_ipynb |-> << >>, ipynb_to_md |-> << >>,
              orphaned_md |-> << >>, orphaned_ipynb |-> << >>]

----------------------------------------------------------------------------
(* SyncEngine *)

NoOp == [op |-> "none", src |-> Path("md", "x"), dst |-> Path("md", "x"),
         fresh |-> FALSE, by |-> "none"]
Op(o, s, d, f, b) == [op |-> o, src |-> s, dst |-> d, fresh |-> f, by |-> b]

NotWritten == [valid |-> FALSE, time |-> 0, fresh |-> FALSE]
NoEdit == [valid |-> FALSE, path |-> Path("md", "x"), kind |-> "none",
           live |-> FALSE, mirrored |-> FALSE, lead |-> 0]

\* the branch on conflict_resolution taken by sync_md_to_ipynb and
\* sync_ipynb_to_md when the target exists: TRUE when the conversion goes on
Overwrites(src, dst, fsys, cfg) ==
    LET conflict_resolution == cfg.conflict_resolution
        src_mtime == fsys[src].mtime
        dst_mtime == fsys[dst].mtime
        time_diff == Abs(src_mtime - dst_mtime)
    IN  IF conflict_resolution = src.tree THEN TRUE
        ELSE IF conflict_resolution = dst.tree THEN FALSE
        ELSE /\ ~(time_diff < EngineThreshold(cfg))
             /\ ~(dst_mtime > src_mtime)

\* Converted without the os.utime call: the target keeps the time of the write
ConvertedNoUtime(src, fsys) == File(now, fsys[src].size)

\* Converter.md_to_ipynb / ipynb_to_md: the target is written and its
\* timestamps are set to those of the source (os.utime); size stands for
\* the content, so the output of a conversion is determined by its input
Converted(src, fsys) == File(fsys[src].mtime, fsys[src].size)

\* recently_synced.add(str(target)), with the time of the insertion
GuardAdd(dst) ==
    /\ recently_synced' = recently_synced \cup {dst}
    /\ guard_time' = [guard_time EXCEPT ![dst] = now]

\* SyncPair with recently_synced.add placed before the tests of the policy
SyncPairGuardEarly(src, dst, ok, by) ==
    /\ GuardAdd(dst)
    /\ IF fs[dst].exists /\ ~Overwrites(src, dst, fs, config)
       THEN /\ lastOp' = Op("skip", src, dst, FALSE, by)
            /\ UNCHANGED <<fs, failures, written>>
       ELSE IF ok
       THEN /\ fs' = [fs EXCEPT ![dst] = Converted(src, fs)]
            /\ lastOp' = Op("write", src, dst, ~fs[dst].exists, by)
            /\ written' = [written EXCEPT ![dst] =
                   [valid |-> TRUE, time |-> now,
                    fresh |-> IF written[dst].valid THEN written[dst].fresh
                              ELSE ~fs[dst].exists]]
            /\ UNCHANGED failures
       ELSE /\ failures < MaxFailures
            /\ failures' = failures + 1
            /\ lastOp' = Op("fail", src, dst, FALSE, by)
            /\ UNCHANGED <<fs, written>>

\* sync_md_to_ipynb(src, dst) / sync_ipynb_to_md(src, dst) with an existing
\* source: ok is whether the converter succeeds
SyncPair(src, dst, ok, by) ==
    IF fs[dst].exists /\ ~Overwrites(src, dst, fs, config)
    THEN /\ lastOp' = Op("skip", src, dst, FALSE, by)
         /\ UNCHANGED <<fs, recently_synced, failures, written, guard_time>>
    ELSE /\ GuardAdd(dst)
         /\ IF ok
            THEN /\ fs' = [fs EXCEPT ![dst] = Converted(src, fs)]
                 /\ lastOp' = Op("write", src, dst, ~fs[dst].exists, by)
                 /\ written' = [written EXCEPT ![dst] =
                        [valid |-> TRUE, time |-> now,
                         fresh |-> IF written[dst].valid THEN written[dst].fresh
                                   ELSE ~fs[dst].exists]]
                 /\ UNCHANGED failures
            ELSE /\ failures < MaxFailures
                 /\ failures' = failures + 1
                 /\ lastOp' = Op("fail", src, dst, FALSE, by)
                 /\ UNCHANGED <<fs, written>>

\* the same call when the source has disappeared: the converter cannot open
\* or stat it; with an existing target under the newer policy the stat of
\* the source raises before the try block
SyncMissing(src, dst, by) ==
    /\ IF fs[dst].exists /\ config.conflict_resolution = dst.tree
       THEN /\ lastOp' = Op("skip", src, dst, FALSE, by)
            /\ UNCHANGED <<recently_synced, guard_time>>
       ELSE /\ lastOp' = Op("fail", src, dst, FALSE, by)
            /\ GuardAdd(dst)
    /\ UNCHANGED <<fs, failures, written>>

StatRaises(src, dst) ==
    /\ ~fs[src].exists
    /\ fs[dst].exists
    /\ config.conflict_resolution = "newer"

engineVars == <<fs, recently_synced, failures, written, guard_time>>
bootVars == <<scanned, sync_actions, todo>>
watcherVars == <<watching, file_states, obs_snap, pending_events,
                 processed_deletes, last_poll_time, last_cleanup_time, wake,
                 current_time, pending_copy, handled, changed_files, burst>>

----------------------------------------------------------------------------
(* main(): initial synchronisation *)

PlanOps(plan, cfg) ==
    MapSeq(plan.md_to_ipynb, LAMBDA a : [kind |-> "sync", source |-> a.source, target |-> a.target])
    \o MapSeq(plan.ipynb_to_md, LAMBDA a : [kind |-> "sync", source |-> a.source, target |-> a.target])
    \o (IF cfg.delete_orphaned
        THEN MapSeq(plan.orphaned_md, LAMBDA q : [kind |-> "unlink", source |-> q, target |-> q])
             \o MapSeq(plan.orphaned_ipynb, LAMBDA q : [kind |-> "unlink", source |-> q, target |-> q])
        ELSE << >>)

\* perform_initial_sync: sync_actions = check_consistency()
InitialCheck ==
    /\ config.mode \in {"watch", "sync_once"}
    /\ pc = "boot"
    /\ scanned' = [md |-> ScanDirectory("md", fs), ipynb |-> ScanDirectory("ipynb", fs)]
    /\ sync_actions' = CheckConsistency(scanned'.md, scanned'.ipynb, config)
    /\ todo' = PlanOps(sync_actions', config)
    /\ pc' = "initial"
    /\ lastOp' = NoOp
    /\ UNCHANGED <<config, now, edits, last_edit>>
    /\ UNCHANGED engineVars
    /\ UNCHANGED watcherVars

\* mtime = None of scan_directory, for a file that os.walk listed and that
\* no longer exists when its information is read
NoMtime == 0 - 1

\* scan_directory when the files in gone disappear after os.walk has listed
\* them and before file_path.exists() is evaluated
ScanDirectoryRacing(tree, fsys, gone) ==
    [r \in Rels |->
        IF IsIgnored(Path(tree, r))
        THEN [present |-> FALSE, mtime |-> 0]
        ELSE [present |-> fsys[Path(tree, r)].exists,
              mtime |-> IF Path(tree, r) \in gone THEN NoMtime
                        ELSE fsys[Path(tree, r)].mtime]]

\* the subtraction md_mtime - ipynb_mtime of check_consistency on an mtime
\* that is None
MtimeRaises(mdf, ipf) ==
    \E r \in Rels : /\ mdf[r].present
                     /\ ipf[r].present
                     /\ (mdf[r].mtime = NoMtime \/ ipf[r].mtime = NoMtime)

\* perform_initial_sync: sync_actions = check_consistency(), while files
\* are removed outside the tool during the two scans; midstat is whether one
\* of them goes between file_path.exists() and file_path.stat()
InitialCheckRacing ==
    /\ pc = "boot"
    /\ \E gone \in SUBSET {p \in Paths : fs[p].exists}, midstat \in BOOLEAN :
          /\ gone # {}
          /\ fs' = [p \in Paths |-> IF p \in gone THEN NoFile ELSE fs[p]]
          /\ IF midstat
             THEN /\ pc' = "crashed"
                  /\ lastOp' = Op("fail", CHOOSE p \in gone : TRUE,
                                  CHOOSE p \in gone : TRUE, FALSE, "scan")
                  /\ UNCHANGED bootVars
             ELSE /\ scanned' = [md |-> ScanDirectoryRacing("md", fs, gone),
                                 ipynb |-> ScanDirectoryRacing("ipynb", fs, gone)]
                  /\ IF MtimeRaises(scanned'.md, scanned'.ipynb)
                     THEN /\ pc' = "crashed"
                          /\ lastOp' = Op("fail", CHOOSE p \in gone : TRUE,
                                          CHOOSE p \in gone : TRUE, FALSE, "scan")
                          /\ UNCHANGED <<sync_actions, todo>>
                     ELSE /\ sync_actions' = CheckConsistency(scanned'.md, scanned'.ipynb, config)
                          /\ todo' = PlanOps(sync_actions', config)
                          /\ pc' = "initial"
                          /\ lastOp' = NoOp
    /\ UNCHANGED <<config, now, edits, last_edit, recently_synced, failures,
                   written, guard_time>>
    /\ UNCHANGED watcherVars

\* perform_initial_sync: one iteration of its loops over the plan
InitialStep ==
    /\ pc = "initial"
    /\ todo # << >>
    /\ LET a == Head(todo)
       IN  /\ todo' = Tail(todo)
           /\ IF a.kind = "unlink"
              THEN /\ fs' = [fs EXCEPT ![a.source] = NoFile]
                   /\ lastOp' = Op("delete", a.source, a.source, FALSE, "initial")
                   /\ pc' = pc
                   /\ UNCHANGED <<recently_synced, failures, written, guard_time>>
              ELSE IF StatRaises(a.source, a.target)
              THEN /\ pc' = "crashed"
                   /\ lastOp' = Op("fail", a.source, a.target, FALSE, "initial")
                   /\ UNCHANGED engineVars
              ELSE IF ~fs[a.source].exists
              THEN /\ SyncMissing(a.source, a.target, "initial")
                   /\ pc' = pc
              ELSE /\ \E ok \in BOOLEAN : SyncPair(a.source, a.target, ok, "initial")
                   /\ pc' = pc
    /\ UNCHANGED <<config, now, scanned, sync_actions, edits, last_edit>>
    /\ UNCHANGED watcherVars

\* perform_initial_sync returns
InitialDone ==
    /\ pc = "initial"
    /\ todo = << >>
    /\ pc' = "start"
    /\ lastOp' = NoOp
    /\ UNCHANGED <<config, now, edits, last_edit>>
    /\ UNCHANGED engineVars
    /\ UNCHANGED bootVars
    /\ UNCHANGED watcherVars

----------------------------------------------------------------------------
(* FileWatcher and SyncFileHandler *)

NoEvent == [type |-> "none", timestamp |-> 0]
Event(t, ts) == [type |-> t, timestamp |-> ts]

NoFiles == [p \in Paths |-> NoFile]
NoEvents == [p \in Paths |-> NoEvent]

TreePaths(tree) == {p \in Paths : p.tree = tree}

\* check_directory_changes that reports no file as created
PollChangeNoCreated(p, st) ==
    IF fs[p].exists
    THEN IF ~st[p].exists THEN "none"
         ELSE IF fs[p].mtime > st[p].mtime \/ fs[p].size # st[p].size
              THEN "modified"
         ELSE "none"
    ELSE IF st[p].exists THEN "deleted" ELSE "none"

\* check_directory_changes(directory): the change reported for a path of
\* the directory, against the states in st
PollChange(p, st) ==
    IF fs[p].exists
    THEN IF ~st[p].exists THEN "created"
         ELSE IF fs[p].mtime > st[p].mtime \/ fs[p].size # st[p].size
              THEN "modified"
         ELSE "none"
    ELSE IF st[p].exists THEN "deleted" ELSE "none"

\* the difference a polling observer computes between two snapshots
ObserverChange(p, snap) ==
    IF fs[p].exists
    THEN IF ~snap[p].exists THEN "created"
         ELSE IF fs[p].mtime # snap[p].mtime \/ fs[p].size # snap[p].size
              THEN "modified"
         ELSE "none"
    ELSE IF snap[p].exists THEN "deleted" ELSE "none"

\* add_pending_event giving every event the shortened delay of a deletion
AddPendingEventShortDelay(event_type, t) == [type |-> event_type, timestamp |-> t - debounce_delay + 1]

\* on_created / on_modified -> handle_file_event -> add_pending_event
AddPendingEvent(event_type, t) ==
    IF event_type = "deleted"
    THEN Event(event_type, t - debounce_delay + 1)
    ELSE Event(event_type, t)

\* on_deleted: the entry it stores in pending_events
DeletedEvent(t) == Event("deleted", t - debounce_delay + 1)

\* Dispatch when on_deleted does not consult processed_deletes
DispatchNoDedup(changes, pend, pd) ==
    [p \in Paths |->
        IF changes[p] \in {"created", "modified"}
        THEN AddPendingEvent(changes[p], now)
        ELSE IF changes[p] = "deleted"
        THEN DeletedEvent(now)
        ELSE pend[p]]

\* the handlers called for a list of changes (one per path at most):
\* the resulting pending_events
Dispatch(changes, pend, pd) ==
    [p \in Paths |->
        IF changes[p] \in {"created", "modified"}
        THEN AddPendingEvent(changes[p], now)
        ELSE IF changes[p] = "deleted" /\ p \notin pd[p.tree]
        THEN DeletedEvent(now)
        ELSE pend[p]]

\* ... and the resulting processed_deletes of the two handlers
DispatchDeletes(changes, pd) ==
    [h \in Trees |-> pd[h] \cup {p \in TreePaths(h) : changes[p] = "deleted"}]

\* the notifications delivered for each path since the last drain ended:
\* how many (two stands for two or more), the time of the first and of the
\* last one, the kind of the last one, and whether one was a deletion
NoBurst == [n |-> 0, first |-> 0, last |-> 0, kind |-> "none", deleted |-> FALSE]
NoBursts == [p \in Paths |-> NoBurst]

Notified(changes, b) ==
    [p \in Paths |->
        IF changes[p] = "none" THEN b[p]
        ELSE [n |-> IF b[p].n = 0 THEN 1 ELSE 2,
              first |-> IF b[p].n = 0 THEN now ELSE b[p].first,
              last |-> now,
              kind |-> changes[p],
              deleted |-> b[p].deleted \/ changes[p] = "deleted"]]

\* FileWatcher.start called while perform_initial_sync is still running
StartWatchEarly ==
    /\ pc = "initial"
    /\ watching' = TRUE
    /\ file_states' = fs
    /\ obs_snap' = fs
    /\ pc' = "sleep"
    /\ wake' = now
    /\ lastOp' = NoOp
    /\ UNCHANGED <<config, now, edits, last_edit, pending_events,
                   processed_deletes, last_poll_time, last_cleanup_time,
                   current_time, pending_copy, handled, changed_files, burst>>
    /\ UNCHANGED engineVars
    /\ UNCHANGED bootVars

\* FileWatcher.start
StartWatch ==
    /\ config.mode = "watch"
    /\ pc = "start"
    /\ watching' = TRUE
    /\ file_states' = fs
    /\ obs_snap' = fs
    /\ pc' = "sleep"
    /\ wake' = now
    /\ lastOp' = NoOp
    /\ UNCHANGED <<config, now, edits, last_edit, pending_events,
                   processed_deletes, last_poll_time, last_cleanup_time,
                   current_time, pending_copy, handled, changed_files, burst>>
    /\ UNCHANGED engineVars
    /\ UNCHANGED bootVars

\* the documents of a directory, in the order os.walk lists them
PathSeq(tree) == [i \in 1..Len(RelOrder) |-> Path(tree, RelOrder[i])]

Change(p, t) == [path |-> p, type |-> t]

\* check_directory_changes(directory): the list it returns; first the
\* created and modified files among the current ones, then the files of
\* file_states that are gone
CheckDirectoryChanges(tree, st) ==
    LET current_files == SelectSeq(PathSeq(tree), LAMBDA p : fs[p].exists)
        changed == SelectSeq(current_files, LAMBDA p : PollChange(p, st) # "none")
        gone == SelectSeq(PathSeq(tree), LAMBDA p : PollChange(p, st) = "deleted")
    IN  [i \in 1..Len(changed) |-> Change(changed[i], PollChange(changed[i], st))]
        \o [i \in 1..Len(gone) |-> Change(gone[i], "deleted")]

\* check_files_changes, when the poll interval has elapsed: the notebook
\* directory is compared with file_states, then the Markdown directory
CheckFilesChanges(st) ==
    CheckDirectoryChanges("ipynb", st) \o CheckDirectoryChanges("md", st)

\* the handler called last for each path of changed_files
PolledChanges ==
    LET changed == CheckFilesChanges(file_states)
        at(p) == {i \in 1..Len(changed) : changed[i].path = p}
        last(p) == CHOOSE i \in at(p) : \A j \in at(p) : j <= i
    IN  [p \in Paths |-> IF at(p) = {} THEN "none" ELSE changed[last(p)].type]

DuePaths(copy, t) ==
    {p \in Paths : /\ copy[p].type # "none"
                   /\ t - copy[p].timestamp >= debounce_delay}

\* process_pending_events up to the copy of the queue
BeginDrain ==
    /\ pc = "sleep"
    /\ now >= wake
    /\ current_time' = now
    /\ IF now - last_poll_time < poll_interval
       THEN UNCHANGED <<last_poll_time, file_states, pending_events,
                        processed_deletes, changed_files, burst>>
       ELSE /\ last_poll_time' = now
            /\ changed_files' = CheckFilesChanges(file_states)
            /\ file_states' = fs
            /\ pending_events' = Dispatch(PolledChanges, pending_events, processed_deletes)
            /\ processed_deletes' = DispatchDeletes(PolledChanges, processed_deletes)
            /\ burst' = Notified(PolledChanges, burst)
    /\ pending_copy' = pending_events'
    /\ handled' = {}
    /\ pc' = "drain"
    /\ lastOp' = NoOp
    /\ UNCHANGED <<config, now, edits, last_edit, watching, obs_snap,
                   last_cleanup_time, wake>>
    /\ UNCHANGED engineVars
    /\ UNCHANGED bootVars

\* handle_file_deletion without the test of delete_orphaned
HandleFileDeletionAlways(p) ==
    /\ fs' = [fs EXCEPT ![Mirror(p)] = NoFile]
    /\ lastOp' = Op("delete", p, Mirror(p), FALSE, "live")
    /\ UNCHANGED <<recently_synced, failures, written, guard_time>>

\* handle_file_deletion(path)
HandleFileDeletion(p) ==
    LET target_path == Mirror(p)
    IN  /\ IF fs[target_path].exists /\ config.delete_orphaned
           THEN /\ fs' = [fs EXCEPT ![target_path] = NoFile]
                /\ lastOp' = Op("delete", p, target_path, FALSE, "live")
           ELSE /\ fs' = fs
                /\ lastOp' = Op("retain", p, target_path, FALSE, "live")
        /\ UNCHANGED <<recently_synced, failures, written, guard_time>>

\* sync_file_if_needed(path)
SyncFileIfNeeded(p) ==
    IF ~fs[p].exists
    THEN /\ lastOp' = Op("absent", p, Mirror(p), FALSE, "live")
         /\ UNCHANGED engineVars
    ELSE IF p \in recently_synced
    THEN /\ recently_synced' = recently_synced \ {p}
         /\ lastOp' = Op("guard", p, Mirror(p), FALSE, "live")
         /\ UNCHANGED <<fs, failures, written, guard_time>>
    ELSE \E ok \in BOOLEAN : SyncPair(p, Mirror(p), ok, "live")

\* a notification handled as if no file watcher were attached to the
\* engine: handle_file_event calls the engine at once
ObserverPollDirect(tree) ==
    /\ watching
    /\ pc \in {"sleep", "drain"}
    /\ \E p \in TreePaths(tree) :
          /\ ObserverChange(p, obs_snap) # "none"
          /\ IF ObserverChange(p, obs_snap) = "deleted"
             THEN HandleFileDeletion(p)
             ELSE SyncFileIfNeeded(p)
    /\ obs_snap' = [p \in Paths |-> IF p.tree = tree THEN fs[p] ELSE obs_snap[p]]
    /\ UNCHANGED <<config, now, pc, edits, last_edit, watching, file_states,
                   pending_events, processed_deletes, last_poll_time,
                   last_cleanup_time, wake, current_time, pending_copy,
                   handled, changed_files, burst>>
    /\ UNCHANGED bootVars

\* a polling observer thread compares its directory with its snapshot and
\* calls the handler of its directory
ObserverPoll(tree) ==
    /\ watching
    /\ pc \in {"sleep", "drain"}
    /\ LET changes == [p \in Paths |->
                          IF p.tree = tree THEN ObserverChange(p, obs_snap) ELSE "none"]
       IN  /\ \E p \in Paths : changes[p] # "none"
           /\ pending_events' = Dispatch(changes, pending_events, processed_deletes)
           /\ processed_deletes' = DispatchDeletes(changes, processed_deletes)
           /\ burst' = Notified(changes, burst)
    /\ obs_snap' = [p \in Paths |-> IF p.tree = tree THEN fs[p] ELSE obs_snap[p]]
    /\ lastOp' = NoOp
    /\ UNCHANGED <<config, now, pc, edits, last_edit, watching, file_states,
                   last_poll_time, last_cleanup_time, wake, current_time,
                   pending_copy, handled, changed_files>>
    /\ UNCHANGED engineVars
    /\ UNCHANGED bootVars

\* the loop body when a failed path is not appended to processed_paths:
\* its entry stays in the queue and is executed again
ProcessEventRetry(p) ==
    /\ pc = "drain"
    /\ p \in DuePaths(pending_copy, current_time) \ handled
    /\ IF pending_copy[p].type = "deleted"
       THEN HandleFileDeletion(p)
       ELSE SyncFileIfNeeded(p)
    /\ handled' = IF lastOp'.op = "fail" THEN handled ELSE handled \cup {p}
    /\ UNCHANGED <<config, now, pc, edits, last_edit, watching, file_states,
                   obs_snap, pending_events, processed_deletes, last_poll_time,
                   last_cleanup_time, wake, current_time, pending_copy,
                   changed_files, burst>>
    /\ UNCHANGED bootVars

\* the loop body without its try/except: a failure leaves
\* process_pending_events at once, main() logs it and sleeps
ProcessEventRaises(p) ==
    /\ pc = "drain"
    /\ p \in DuePaths(pending_copy, current_time) \ handled
    /\ IF pending_copy[p].type = "deleted"
       THEN HandleFileDeletion(p)
       ELSE SyncFileIfNeeded(p)
    /\ IF lastOp'.op = "fail"
       THEN /\ pc' = "sleep"
            /\ wake' = now + watch_interval
            /\ handled' = handled
       ELSE /\ pc' = pc
            /\ wake' = wake
            /\ handled' = handled \cup {p}
    /\ UNCHANGED <<config, now, edits, last_edit, watching, file_states,
                   obs_snap, pending_events, processed_deletes, last_poll_time,
                   last_cleanup_time, current_time, pending_copy,
                   changed_files, burst>>
    /\ UNCHANGED bootVars

\* process_pending_events: the loop body for one due entry of the copy
ProcessEvent(p) ==
    /\ pc = "drain"
    /\ p \in DuePaths(pending_copy, current_time) \ handled
    /\ IF pending_copy[p].type = "deleted"
       THEN HandleFileDeletion(p)
       ELSE SyncFileIfNeeded(p)
    /\ handled' = handled \cup {p}
    /\ UNCHANGED <<config, now, pc, edits, last_edit, watching, file_states,
                   obs_snap, pending_events, processed_deletes, last_poll_time,
                   last_cleanup_time, wake, current_time, pending_copy,
                   changed_files, burst>>
    /\ UNCHANGED bootVars

cleanup_interval == 600

\* process_pending_events: removal of the processed paths, then
\* cleanup_processed_deletes; main() then sleeps watch_interval
EndDrain ==
    /\ pc = "drain"
    /\ DuePaths(pending_copy, current_time) \subseteq handled
    /\ pending_events' = [p \in Paths |->
                             IF p \in handled THEN NoEvent ELSE pending_events[p]]
    /\ IF now - last_cleanup_time > cleanup_interval
       THEN /\ processed_deletes' = [h \in Trees |-> {}]
            /\ last_cleanup_time' = now
       ELSE UNCHANGED <<processed_deletes, last_cleanup_time>>
    /\ pending_copy' = NoEvents
    /\ handled' = {}
    /\ changed_files' = << >>
    /\ burst' = NoBursts
    /\ pc' = "sleep"
    /\ wake' = now + watch_interval
    /\ lastOp' = NoOp
    /\ UNCHANGED <<config, now, edits, last_edit, watching, file_states,
                   obs_snap, last_poll_time, current_time>>
    /\ UNCHANGED engineVars
    /\ UNCHANGED bootVars

----------------------------------------------------------------------------
(* The environment: the user's edits and the clock *)

Forgotten == [p \in Paths |-> NotWritten]

\* a file is created or rewritten outside the tool, for the limit-th time
\* at most
ExternalWriteUpTo(p, sz, limit) ==
    /\ pc \in {"initial", "sleep"}
    /\ edits < limit
    /\ fs[p] # File(now, sz)
    /\ edits' = edits + 1
    /\ fs' = [fs EXCEPT ![p] = File(now, sz)]
    /\ written' = Forgotten
    /\ last_edit' = [valid |-> TRUE, path |-> p, kind |-> "write",
                     live |-> watching, mirrored |-> fs[Mirror(p)].exists,
                     lead |-> now - fs[Mirror(p)].mtime]
    /\ lastOp' = NoOp
    /\ UNCHANGED <<config, now, pc, recently_synced, failures, guard_time>>
    /\ UNCHANGED watcherVars
    /\ UNCHANGED bootVars

ExternalWrite(p, sz) == ExternalWriteUpTo(p, sz, MaxEdits)

\* a file is removed outside the tool
ExternalDeleteUpTo(p, limit) ==
    /\ pc \in {"initial", "sleep"}
    /\ edits < limit
    /\ fs[p].exists
    /\ edits' = edits + 1
    /\ fs' = [fs EXCEPT ![p] = NoFile]
    /\ written' = Forgotten
    /\ last_edit' = [valid |-> TRUE, path |-> p, kind |-> "delete",
                     live |-> watching, mirrored |-> fs[Mirror(p)].exists,
                     lead |-> 0]
    /\ lastOp' = NoOp
    /\ UNCHANGED <<config, now, pc, recently_synced, failures, guard_time>>
    /\ UNCHANGED watcherVars
    /\ UNCHANGED bootVars

ExternalDelete(p) == ExternalDeleteUpTo(p, MaxEdits)

\* time passes while the main loop sleeps
Tick ==
    /\ pc = "sleep"
    /\ now < wake
    /\ now + TickStep <= MaxTime
    /\ now' = now + TickStep
    /\ lastOp' = NoOp
    /\ UNCHANGED <<config, pc, edits, last_edit>>
    /\ UNCHANGED engineVars
    /\ UNCHANGED watcherVars
    /\ UNCHANGED bootVars

\* the conversion a drain is about to run, or is running, for the due path p
Converting(p) ==
    /\ pc = "drain"
    /\ p \in DuePaths(pending_copy, current_time) \ handled
    /\ pending_copy[p].type # "deleted"
    /\ fs[p].exists
    /\ p \notin recently_synced
    /\ (fs[Mirror(p)].exists => Overwrites(p, Mirror(p), fs, config))

\* signal_handler (SIGINT / SIGTERM): Python runs it in the main thread
\* between two bytecodes of whatever main() is executing; it stops the
\* observers and raises SystemExit there.  Either no write is in progress,
\* or the converter has opened the target for writing (it is empty, or its
\* content is written) and os.utime has not been called yet.
StopSignal ==
    /\ watching
    /\ pc \in {"sleep", "drain"}
    /\ \/ /\ lastOp' = Op("stop", Path("md", "x"), Path("md", "x"), FALSE, "signal")
          /\ UNCHANGED engineVars
       \/ \E p \in Paths : \E sz \in {0, fs[p].size} :
             /\ Converting(p)
             /\ GuardAdd(Mirror(p))
             /\ fs' = [fs EXCEPT ![Mirror(p)] = File(now, sz)]
             /\ lastOp' = Op("partial", p, Mirror(p), ~fs[Mirror(p)].exists, "signal")
             /\ UNCHANGED <<failures, written>>
    /\ watching' = FALSE
    /\ pc' = "stopped"
    /\ UNCHANGED <<config, now, edits, last_edit, file_states, obs_snap,
                   pending_events, processed_deletes, last_poll_time,
                   last_cleanup_time, wake, current_time, pending_copy,
                   handled, changed_files, burst>>
    /\ UNCHANGED bootVars

----------------------------------------------------------------------------
(* main(): the modes other than the continuous watch *)

\* --check-only: check_consistency(), then return
CheckOnly ==
    /\ config.mode = "check_only"
    /\ pc = "boot"
    /\ scanned' = [md |-> ScanDirectory("md", fs), ipynb |-> ScanDirectory("ipynb", fs)]
    /\ sync_actions' = CheckConsistency(scanned'.md, scanned'.ipynb, config)
    /\ pc' = "exited"
    /\ lastOp' = NoOp
    /\ UNCHANGED <<config, now, edits, last_edit, todo>>
    /\ UNCHANGED engineVars
    /\ UNCHANGED watcherVars

\* --sync-once: return after perform_initial_sync
SyncOnceExit ==
    /\ config.mode = "sync_once"
    /\ pc = "start"
    /\ pc' = "exited"
    /\ lastOp' = NoOp
    /\ UNCHANGED <<config, now, edits, last_edit>>
    /\ UNCHANGED engineVars
    /\ UNCHANGED bootVars
    /\ UNCHANGED watcherVars

\* --dry-run: the initial synchronisation and file_watcher.start() are
\* skipped, and main() enters its loop
DryRunStart ==
    /\ config.mode = "dry_run"
    /\ pc = "boot"
    /\ pc' = "sleep"
    /\ wake' = now
    /\ lastOp' = NoOp
    /\ UNCHANGED <<config, now, edits, last_edit, watching, file_states,
                   obs_snap, pending_events, processed_deletes, last_poll_time,
                   last_cleanup_time, current_time, pending_copy, handled,
                   changed_files, burst>>
    /\ UNCHANGED engineVars
    /\ UNCHANGED bootVars

\* --dry-run: one iteration of the loop.  The handlers do not exist, so the
\* first change that check_files_changes wants to deliver raises
\* AttributeError out of process_pending_events, which main() logs; without
\* a change the queue is empty and cleanup_processed_deletes does nothing.
DryRunCycle ==
    /\ config.mode = "dry_run"
    /\ pc = "sleep"
    /\ now >= wake
    /\ current_time' = now
    /\ IF now - last_poll_time < poll_interval
       THEN UNCHANGED <<last_poll_time, file_states>>
       ELSE /\ last_poll_time' = now
            /\ file_states' = fs
    /\ wake' = now + watch_interval
    /\ lastOp' = NoOp
    /\ UNCHANGED <<config, now, pc, edits, last_edit, watching, obs_snap,
                   pending_events, processed_deletes, last_cleanup_time,
                   pending_copy, handled, changed_files, burst>>
    /\ UNCHANGED engineVars
    /\ UNCHANGED bootVars

----------------------------------------------------------------------------
(* Specifications *)

\* the state after the constructors of main(), whatever the configuration
InitState ==
    /\ now = StartTime
    /\ pc = "boot"
    /\ scanned = [md |-> NoScan, ipynb |-> NoScan]
    /\ sync_actions = EmptyPlan
    /\ todo = << >>
    /\ recently_synced = {}
    /\ watching = FALSE
    /\ file_states = NoFiles
    /\ obs_snap = NoFiles
    /\ pending_events = NoEvents
    /\ processed_deletes = [h \in Trees |-> {}]
    /\ last_poll_time = StartTime
    /\ last_cleanup_time = StartTime
    /\ wake = StartTime
    /\ current_time = StartTime
    /\ pending_copy = NoEvents
    /\ handled = {}
    /\ edits = 0
    /\ failures = 0
    /\ lastOp = NoOp
    /\ written = Forgotten
    /\ guard_time = [p \in Paths |-> 0]
    /\ last_edit = NoEdit
    /\ changed_files = << >>
    /\ burst = NoBursts

InitCommon ==
    /\ config \in Configs
    /\ InitState

InitFiles == {NoFile} \cup {File(m, 1) : m \in InitMtimes}

\* the program is started on any pair of trees
InitRecon ==
    /\ InitCommon
    /\ fs \in [Paths -> InitFiles]

NextRecon ==
    \/ InitialCheck
    \/ InitialStep
    \/ InitialDone

SpecRecon == InitRecon /\ [][NextRecon]_vars

\* the running tool, with one document (x) in use
EditPaths == {p \in Paths : p.rel = "x"}

Init ==
    /\ InitCommon
    /\ fs \in [Paths -> InitFiles]
    /\ \A p \in Paths : p \notin EditPaths => fs[p] = NoFile

Next ==
    \/ InitialCheck
    \/ InitialStep
    \/ InitialDone
    \/ StartWatch
    \/ BeginDrain
    \/ \E p \in Paths : ProcessEvent(p)
    \/ EndDrain
    \/ \E t \in Trees : ObserverPoll(t)
    \/ \E p \in EditPaths, sz \in Sizes : ExternalWrite(p, sz)
    \/ \E p \in EditPaths : ExternalDelete(p)
    \/ Tick

Spec == Init /\ [][Next]_vars

\* the running tool on one document that is edited twice (removed and
\* written again, written twice, ...)
BurstPaths == {Path("md", "x")}

InitBurst ==
    /\ InitCommon
    /\ config = [conflict_resolution |-> "newer",
                 time_threshold |-> [set |-> FALSE, value |-> 0],
                 delete_orphaned |-> TRUE,
                 ignore_patterns |-> {},
                 mode |-> "watch"]
    /\ fs = [p \in Paths |-> IF p \in BurstPaths THEN File(20, 1) ELSE NoFile]

NextBurst ==
    \/ InitialCheck
    \/ InitialStep
    \/ InitialDone
    \/ StartWatch
    \/ BeginDrain
    \/ \E p \in Paths : ProcessEvent(p)
    \/ EndDrain
    \/ \E t \in Trees : ObserverPoll(t)
    \/ \E p \in BurstPaths, sz \in Sizes : ExternalWriteUpTo(p, sz, MaxBurstEdits)
    \/ \E p \in BurstPaths : ExternalDeleteUpTo(p, MaxBurstEdits)
    \/ Tick

SpecBurst == InitBurst /\ [][NextBurst]_vars

\* the watch loop started on any stored snapshot and any current state of
\* the document x: whatever happened to its files since the last poll
PollFiles == InitFiles \cup {File(20, 2)}

InitPoll ==
    /\ config \in Configs
    /\ now = StartTime
    /\ pc = "sleep"
    /\ scanned = [md |-> NoScan, ipynb |-> NoScan]
    /\ sync_actions = EmptyPlan
    /\ todo = << >>
    /\ recently_synced = {}
    /\ watching = TRUE
    /\ fs \in [Paths -> PollFiles]
    /\ file_states \in [Paths -> PollFiles]
    /\ \A p \in Paths : p \notin EditPaths => (fs[p] = NoFile /\ file_states[p] = NoFile)
    /\ obs_snap = fs
    /\ pending_events = NoEvents
    /\ processed_deletes = [h \in Trees |-> {}]
    /\ last_poll_time = StartTime - poll_interval
    /\ last_cleanup_time = StartTime
    /\ wake = StartTime
    /\ current_time = StartTime
    /\ pending_copy = NoEvents
    /\ handled = {}
    /\ edits = 0
    /\ failures = 0
    /\ lastOp = NoOp
    /\ written = Forgotten
    /\ guard_time = [p \in Paths |-> 0]
    /\ last_edit = NoEdit
    /\ changed_files = << >>
    /\ burst = NoBursts

NextPoll ==
    \/ BeginDrain
    \/ \E p \in Paths : ProcessEvent(p)
    \/ EndDrain
    \/ Tick

SpecPoll == InitPoll /\ [][NextPoll]_vars

\* the initial reconciliation on any pair of trees, while a file may be
\* removed outside the tool between the scan and the write
NextReconRace ==
    \/ InitialCheck
    \/ InitialStep
    \/ InitialDone
    \/ \E p \in Paths : ExternalDelete(p)

SpecReconRace == InitRecon /\ [][NextReconRace]_vars

\* the initial reconciliation on any pair of trees, while files may be
\* removed outside the tool during the scans
NextScan ==
    \/ InitialCheck
    \/ InitialCheckRacing
    \/ InitialStep
    \/ InitialDone

SpecScan == InitRecon /\ [][NextScan]_vars

\* the running tool when the document y lies under an ignored directory or
\* has an ignored name (.ipynb_checkpoints/y-checkpoint, .y, ...), next to
\* the ordinary document x
IgnoredRels == {"y"}
IgnoredPaths == {p \in Paths : p.rel \in IgnoredRels}
IgnoreFiles == {NoFile, File(20, 1)}

InitIgnore ==
    /\ config \in [conflict_resolution : Policies,
                    time_threshold : {[set |-> FALSE, value |-> 0]},
                    delete_orphaned : BOOLEAN,
                    ignore_patterns : {IgnoredRels},
                    mode : {"watch"}]
    /\ InitState
    /\ fs \in [Paths -> IgnoreFiles]
    /\ fs[Path("ipynb", "x")] = NoFile

NextIgnore ==
    \/ InitialCheck
    \/ InitialStep
    \/ InitialDone
    \/ StartWatch
    \/ BeginDrain
    \/ \E p \in Paths : ProcessEvent(p)
    \/ EndDrain
    \/ \E t \in Trees : ObserverPoll(t)
    \/ \E p \in IgnoredPaths, sz \in Sizes : ExternalWrite(p, sz)
    \/ \E p \in IgnoredPaths : ExternalDelete(p)
    \/ Tick

SpecIgnore == InitIgnore /\ [][NextIgnore]_vars

\* the running tool on one document, stopped by a signal at any moment
NextStop ==
    \/ Next
    \/ StopSignal

SpecStop == InitBurst /\ [][NextStop]_vars

\* the watch loop after it has run for almost a cleanup interval, with the
\* deletion of y.md recorded long ago, while x.md or x.ipynb is removed
LongAgo == StartTime + 2 * watch_interval - cleanup_interval

InitCleanup ==
    /\ config \in Configs
    /\ now = StartTime
    /\ pc = "sleep"
    /\ scanned = [md |-> NoScan, ipynb |-> NoScan]
    /\ sync_actions = EmptyPlan
    /\ todo = << >>
    /\ recently_synced = {}
    /\ watching = TRUE
    /\ fs \in [Paths -> {NoFile, File(20, 1)}]
    /\ \A p \in Paths : p \notin EditPaths => fs[p] = NoFile
    /\ file_states = fs
    /\ obs_snap = fs
    /\ pending_events = NoEvents
    /\ processed_deletes \in {[h \in Trees |-> {}],
                              [h \in Trees |-> IF h = "md" THEN {Path("md", "y")} ELSE {}]}
    /\ last_poll_time = StartTime - poll_interval
    /\ last_cleanup_time = LongAgo
    /\ wake = StartTime
    /\ current_time = StartTime
    /\ pending_copy = NoEvents
    /\ handled = {}
    /\ edits = 0
    /\ failures = 0
    /\ lastOp = NoOp
    /\ written = Forgotten
    /\ guard_time = [p \in Paths |-> 0]
    /\ last_edit = NoEdit
    /\ changed_files = << >>
    /\ burst = NoBursts

NextCleanup ==
    \/ BeginDrain
    \/ \E p \in Paths : ProcessEvent(p)
    \/ EndDrain
    \/ \E t \in Trees : ObserverPoll(t)
    \/ \E p \in EditPaths : ExternalDelete(p)
    \/ Tick

SpecCleanup == InitCleanup /\ [][NextCleanup]_vars

\* the program started in one of the modes check-only, sync-once and
\* dry-run, on the document x
ModeFiles == {NoFile, File(20, 1), File(50, 1)}

InitModes ==
    /\ config \in [conflict_resolution : Policies,
                    time_threshold : {[set |-> FALSE, value |-> 0]},
                    delete_orphaned : BOOLEAN,
                    ignore_patterns : {{}},
                    mode : Modes \ {"watch"}]
    /\ InitState
    /\ fs \in [Paths -> ModeFiles]
    /\ \A p \in Paths : p \notin EditPaths => fs[p] = NoFile

NextModes ==
    \/ CheckOnly
    \/ InitialCheck
    \/ InitialStep
    \/ InitialDone
    \/ SyncOnceExit
    \/ DryRunStart
    \/ DryRunCycle
    \/ \E p \in EditPaths, sz \in Sizes : ExternalWrite(p, sz)
    \/ \E p \in EditPaths : ExternalDelete(p)
    \/ Tick

SpecModes == InitModes /\ [][NextModes]_vars

\* the running tool with a proximity threshold of zero in the configuration
\* file ("time_threshold": 0), next to the built-in one
ExactThresholds == {[set |-> TRUE, value |-> 0], [set |-> FALSE, value |-> 0]}

InitExact ==
    /\ InitState
    /\ config \in [conflict_resolution : Policies,
                   time_threshold : ExactThresholds,
                   delete_orphaned : {TRUE},
                   ignore_patterns : {{}},
                   mode : {"watch"}]
    /\ fs \in [Paths -> InitFiles]
    /\ \A p \in Paths : p \notin EditPaths => fs[p] = NoFile

NextExact ==
    \/ InitialCheck
    \/ InitialStep
    \/ InitialDone
    \/ StartWatch
    \/ BeginDrain
    \/ \E p \in Paths : ProcessEvent(p)
    \/ EndDrain
    \/ \E t \in Trees : ObserverPoll(t)
    \/ \E p \in EditPaths, sz \in Sizes : ExternalWrite(p, sz)
    \/ \E p \in EditPaths : ExternalDelete(p)
    \/ Tick

SpecExact == InitExact /\ [][NextExact]_vars

\* the running tool on one document that is removed, written again and
\* removed again
MaxAgainEdits == 3

\* a removed file is written again outside the tool
ExternalCreate(p) ==
    /\ ~fs[p].exists
    /\ ExternalWriteUpTo(p, 1, MaxAgainEdits)

NextAgain ==
    \/ InitialCheck
    \/ InitialStep
    \/ InitialDone
    \/ StartWatch
    \/ BeginDrain
    \/ \E p \in Paths : ProcessEvent(p)
    \/ EndDrain
    \/ \E t \in Trees : ObserverPoll(t)
    \/ \E p \in BurstPaths : ExternalCreate(p)
    \/ \E p \in BurstPaths : ExternalDeleteUpTo(p, MaxAgainEdits)
    \/ Tick

SpecAgain == InitBurst /\ [][NextAgain]_vars

----------------------------------------------------------------------------
(* The engine on paths located by their directory and by the spelling of
   their extension: the two configured directories hold files of every
   kind, and a third directory stands for the places outside them.  The
   operators above are the restriction of these to the documents that lie
   in their own tree and are spelled .md / .ipynb. *)

Dirs == Trees \cup {"out"}
Exts == {"md", "MD", "ipynb", "txt"}
LocPaths == [tree : Dirs, rel : {"x"}, ext : Exts]

Loc(d, r, e) == [tree |-> d, rel |-> r, ext |-> e]

\* get_file_extension: the extension, lower-cased
GetFileExtension(q) == IF q.ext = "MD" THEN "md" ELSE q.ext

IsMarkdownFile(q) == GetFileExtension(q) = "md"

IsNotebookFile(q) == GetFileExtension(q) = "ipynb"

\* a directory as the sequence of its components below the common parent
DirParts(d) == <<d>>

DirOfParts(parts) == CHOOSE d \in Dirs : DirParts(d) = parts

\* the length of the common prefix of two component sequences
RECURSIVE CommonLen(_, _)
CommonLen(a, b) ==
    IF a = << >> \/ b = << >> \/ Head(a) # Head(b) THEN 0
    ELSE 1 + CommonLen(Tail(a), Tail(b))

\* get_relative_path = os.path.relpath(path, base_path), on the directory
\* of the path: one ".." for every component of the base that the path
\* does not share, then the rest of the path
RelPath(dir, base) ==
    LET k == CommonLen(dir, base)
    IN  [i \in 1..(Len(base) - k) |-> ".."] \o SubSeq(dir, k + 1, Len(dir))

\* the directory the file system reaches for target_dir / rel_path
RECURSIVE Resolve(_)
Resolve(parts) ==
    IF parts = << >> THEN << >>
    ELSE LET front == Resolve(SubSeq(parts, 1, Len(parts) - 1))
             last == parts[Len(parts)]
         IN  IF last # ".." THEN Append(front, last)
             ELSE IF front = << >> THEN << >>
             ELSE SubSeq(front, 1, Len(front) - 1)

\* target_dir / Path(get_relative_path(file_path, source_dir)).with_suffix(suffix)
TargetPath(q, source_dir, target_dir, suffix) ==
    Loc(DirOfParts(Resolve(DirParts(target_dir)
                             \o RelPath(DirParts(q.tree), DirParts(source_dir)))),
        q.rel, suffix)

\* ConsistencyChecker.get_corresponding_path, called for the files found
\* by the scan of source_dir
GetCorrespondingPath(q, source_dir, target_dir, target_ext) ==
    Loc(target_dir, q.rel, target_ext)

\* the mirror the engine and the reconciler compute for a document
EngineMirror(q) ==
    IF IsMarkdownFile(q) THEN TargetPath(q, "md", "ipynb", "ipynb")
    ELSE TargetPath(q, "ipynb", "md", "md")

CheckerMirror(q) ==
    IF IsMarkdownFile(q) THEN GetCorrespondingPath(q, "md", "ipynb", "ipynb")
    ELSE GetCorrespondingPath(q, "ipynb", "md", "md")

\* handle_file_deletion(path) for a located path
HandleFileDeletionAt(q) ==
    IF ~(IsMarkdownFile(q) \/ IsNotebookFile(q))
    THEN /\ lastOp' = Op("unsupported", q, q, FALSE, "live")
         /\ UNCHANGED engineVars
    ELSE LET target_path == EngineMirror(q)
         IN  /\ IF fs[target_path].exists /\ config.delete_orphaned
                THEN /\ fs' = [fs EXCEPT ![target_path] = NoFile]
                     /\ lastOp' = Op("delete", q, target_path, FALSE, "live")
                ELSE /\ fs' = fs
                     /\ lastOp' = Op("retain", q, target_path, FALSE, "live")
             /\ UNCHANGED <<recently_synced, failures, written, guard_time>>

\* sync_file_if_needed(path) for a located path
SyncFileIfNeededAt(q) ==
    IF ~fs[q].exists
    THEN /\ lastOp' = Op("absent", q, q, FALSE, "live")
         /\ UNCHANGED engineVars
    ELSE IF q \in recently_synced
    THEN /\ recently_synced' = recently_synced \ {q}
         /\ lastOp' = Op("guard", q, q, FALSE, "live")
         /\ UNCHANGED <<fs, failures, written, guard_time>>
    ELSE IF ~(IsMarkdownFile(q) \/ IsNotebookFile(q))
    THEN /\ lastOp' = Op("unsupported", q, q, FALSE, "live")
         /\ UNCHANGED engineVars
    ELSE IF q.tree # GetFileExtension(q)
    THEN /\ lastOp' = Op("outside", q, q, FALSE, "live")
         /\ UNCHANGED engineVars
    ELSE \E ok \in BOOLEAN : SyncPair(q, EngineMirror(q), ok, "live")

\* a file of a watched directory is written outside the tool (m is its
\* mtime: the time of the write, or an older one when the file is copied
\* with its timestamps) and its observer reports it
WatchedWrite(q, m) ==
    /\ q.tree \in Trees
    /\ edits < MaxEdits
    /\ fs[q] # File(m, 2)
    /\ edits' = edits + 1
    /\ fs' = [fs EXCEPT ![q] = File(m, 2)]
    /\ pending_events' = [pending_events EXCEPT ![q] =
           AddPendingEvent(IF fs[q].exists THEN "modified" ELSE "created", now)]
    /\ lastOp' = NoOp
    /\ UNCHANGED <<config, now, pc, recently_synced, failures, guard_time,
                   written, last_edit, watching, file_states, obs_snap,
                   processed_deletes, last_poll_time, last_cleanup_time, wake,
                   current_time, pending_copy, handled, changed_files, burst>>
    /\ UNCHANGED bootVars

\* a file of a watched directory is removed outside the tool and the
\* observer's on_deleted runs
WatchedDelete(q) ==
    /\ q.tree \in Trees
    /\ edits < MaxEdits
    /\ fs[q].exists
    /\ edits' = edits + 1
    /\ fs' = [fs EXCEPT ![q] = NoFile]
    /\ pending_events' = [pending_events EXCEPT ![q] =
           IF q \in processed_deletes[q.tree] THEN @ ELSE DeletedEvent(now)]
    /\ processed_deletes' = [processed_deletes EXCEPT ![q.tree] = @ \cup {q}]
    /\ lastOp' = NoOp
    /\ UNCHANGED <<config, now, pc, recently_synced, failures, guard_time,
                   written, last_edit, watching, file_states, obs_snap,
                   last_poll_time, last_cleanup_time, wake,
                   current_time, pending_copy, handled, changed_files, burst>>
    /\ UNCHANGED bootVars

\* process_pending_events for one entry that is due: the action runs and
\* the entry leaves the queue
ProcessLocated(q) ==
    /\ pending_events[q] # NoEvent
    /\ IF pending_events[q].type = "deleted"
       THEN HandleFileDeletionAt(q)
       ELSE SyncFileIfNeededAt(q)
    /\ pending_events' = [pending_events EXCEPT ![q] = NoEvent]
    /\ UNCHANGED <<config, now, pc, edits, last_edit, watching, file_states,
                   obs_snap, processed_deletes, last_poll_time,
                   last_cleanup_time, wake, current_time, pending_copy,
                   handled, changed_files, burst>>
    /\ UNCHANGED bootVars

LocFiles == {File(20, 1), File(50, 1)}

\* the watchers run, two files at most exist
InitLoc ==
    /\ config \in [conflict_resolution : Policies,
                   time_threshold : {[set |-> FALSE, value |-> 0]},
                   delete_orphaned : BOOLEAN,
                   ignore_patterns : {{}},
                   mode : {"watch"}]
    /\ now = StartTime
    /\ pc = "sleep"
    /\ scanned = [md |-> NoScan, ipynb |-> NoScan]
    /\ sync_actions = EmptyPlan
    /\ todo = << >>
    /\ recently_synced = {}
    /\ watching = TRUE
    /\ \E a, b \in LocPaths : \E fa, fb \in LocFiles \cup {NoFile} :
          fs = [q \in LocPaths |-> IF q = a THEN fa
                                   ELSE IF q = b THEN fb ELSE NoFile]
    /\ file_states = fs
    /\ obs_snap = fs
    /\ pending_events = [q \in LocPaths |-> NoEvent]
    /\ processed_deletes = [h \in Trees |-> {}]
    /\ last_poll_time = StartTime
    /\ last_cleanup_time = StartTime
    /\ wake = StartTime + watch_interval
    /\ current_time = StartTime
    /\ pending_copy = NoEvents
    /\ handled = {}
    /\ edits = 0
    /\ failures = 0
    /\ lastOp = NoOp
    /\ written = [q \in LocPaths |-> NotWritten]
    /\ guard_time = [q \in LocPaths |-> 0]
    /\ last_edit = NoEdit
    /\ changed_files = << >>
    /\ burst = NoBursts

NextLoc ==
    \/ \E q \in LocPaths : \E m \in {20, StartTime} : WatchedWrite(q, m)
    \/ \E q \in LocPaths : WatchedDelete(q)
    \/ \E q \in LocPaths : ProcessLocated(q)

SpecLoc == InitLoc /\ [][NextLoc]_vars

----------------------------------------------------------------------------
(* The poll with the two configured directories as path strings: a string
   is the sequence of its characters, and the file name is one more
   element.  CheckDirectoryChanges above is the case of two directories
   neither of which is a prefix of the other. *)

Notes == <<"n", "o", "t", "e", "s">>

\* md_dir / ipynb_dir of the configuration: the defaults mdtest and
\* ipynbtest, notes_md with notes, and notes with notes_nb
RootPairs ==
    {[md_dir |-> <<"m", "d", "t", "e", "s", "t">>,
      ipynb_dir |-> <<"i", "p", "y", "n", "b", "t", "e", "s", "t">>],
     [md_dir |-> Notes \o <<"_", "m", "d">>, ipynb_dir |-> Notes],
     [md_dir |-> Notes, ipynb_dir |-> Notes \o <<"_", "n", "b">>]}

\* str(directory)
DirStr(tree, cfg) == IF tree = "md" THEN cfg.md_dir ELSE cfg.ipynb_dir

\* os.path.join(root, file)
PathStr(p, cfg) == DirStr(p.tree, cfg) \o <<"/", p.rel>>

\* file_path.startswith(prefix)
StartsWith(str, prefix) ==
    /\ Len(prefix) <= Len(str)
    /\ SubSeq(str, 1, Len(prefix)) = prefix

\* check_directory_changes(directory): the list it returns and file_states
\* as it leaves it; the keys of file_states are visited in the order of
\* scan_files_state
CheckDirectoryChangesRoots(tree, st) ==
    LET current_files == SelectSeq(PathSeq(tree), LAMBDA p : fs[p].exists)
        changed == SelectSeq(current_files, LAMBDA p : PollChange(p, st) # "none")
        gone == SelectSeq(PathSeq("md") \o PathSeq("ipynb"),
                          LAMBDA p : /\ st[p].exists
                                     /\ StartsWith(PathStr(p, config), DirStr(tree, config))
                                     /\ ~(p.tree = tree /\ fs[p].exists))
    IN  [changed |-> [i \in 1..Len(changed) |-> Change(changed[i], PollChange(changed[i], st))]
                     \o [i \in 1..Len(gone) |-> Change(gone[i], "deleted")],
         states |-> [p \in Paths |->
                        IF p.tree = tree /\ fs[p].exists THEN fs[p]
                        ELSE IF p \in SeqRange(gone) THEN NoFile
                        ELSE st[p]]]

\* check_files_changes: the notebook directory, then the Markdown directory
\* against what the first call left in file_states
CheckFilesChangesRoots(st) ==
    LET ipynb == CheckDirectoryChangesRoots("ipynb", st)
        md == CheckDirectoryChangesRoots("md", ipynb.states)
    IN  [changed |-> ipynb.changed \o md.changed, states |-> md.states]

\* the handlers called for the list of changes, one after the other
RECURSIVE HandleChanges(_, _, _)
HandleChanges(changed, pend, pd) ==
    IF changed = << >> THEN [pending |-> pend, deletes |-> pd]
    ELSE LET c == Head(changed)
         IN  IF c.type # "deleted"
             THEN HandleChanges(Tail(changed),
                                [pend EXCEPT ![c.path] = AddPendingEvent(c.type, now)], pd)
             ELSE IF c.path \in pd[c.path.tree]
             THEN HandleChanges(Tail(changed), pend, pd)
             ELSE HandleChanges(Tail(changed),
                                [pend EXCEPT ![c.path] = DeletedEvent(now)],
                                [pd EXCEPT ![c.path.tree] = @ \cup {c.path}])

\* the handler called last for each path of a list of changes
LastChanges(changed) ==
    LET at(p) == {i \in 1..Len(changed) : changed[i].path = p}
        last(p) == CHOOSE i \in at(p) : \A j \in at(p) : j <= i
    IN  [p \in Paths |-> IF at(p) = {} THEN "none" ELSE changed[last(p)].type]

\* process_pending_events up to the copy of the queue
BeginDrainRoots ==
    /\ pc = "sleep"
    /\ now >= wake
    /\ current_time' = now
    /\ IF now - last_poll_time < poll_interval
       THEN UNCHANGED <<last_poll_time, file_states, pending_events,
                        processed_deletes, changed_files, burst>>
       ELSE LET poll == CheckFilesChangesRoots(file_states)
                done == HandleChanges(poll.changed, pending_events, processed_deletes)
            IN  /\ last_poll_time' = now
                /\ changed_files' = poll.changed
                /\ file_states' = poll.states
                /\ pending_events' = done.pending
                /\ processed_deletes' = done.deletes
                /\ burst' = Notified(LastChanges(poll.changed), burst)
    /\ pending_copy' = pending_events'
    /\ handled' = {}
    /\ pc' = "drain"
    /\ lastOp' = NoOp
    /\ UNCHANGED <<config, now, edits, last_edit, watching, obs_snap,
                   last_cleanup_time, wake>>
    /\ UNCHANGED engineVars
    /\ UNCHANGED bootVars

\* the watchers have just been started: file_states is the state of the
\* two directories
InitRoots ==
    /\ \E c \in Configs : \E roots \in RootPairs :
          config = [conflict_resolution |-> c.conflict_resolution,
                    time_threshold |-> c.time_threshold,
                    delete_orphaned |-> c.delete_orphaned,
                    ignore_patterns |-> c.ignore_patterns,
                    mode |-> c.mode,
                    md_dir |-> roots.md_dir,
                    ipynb_dir |-> roots.ipynb_dir]
    /\ now = StartTime
    /\ pc = "sleep"
    /\ scanned = [md |-> NoScan, ipynb |-> NoScan]
    /\ sync_actions = EmptyPlan
    /\ todo = << >>
    /\ recently_synced = {}
    /\ watching = TRUE
    /\ fs \in [Paths -> {NoFile, File(20, 1)}]
    /\ file_states = fs
    /\ obs_snap = fs
    /\ pending_events = NoEvents
    /\ processed_deletes = [h \in Trees |-> {}]
    /\ last_poll_time = StartTime
    /\ last_cleanup_time = StartTime
    /\ wake = StartTime + watch_interval
    /\ current_time = StartTime
    /\ pending_copy = NoEvents
    /\ handled = {}
    /\ edits = 0
    /\ failures = 0
    /\ lastOp = NoOp
    /\ written = Forgotten
    /\ guard_time = [p \in Paths |-> 0]
    /\ last_edit = NoEdit
    /\ changed_files = << >>
    /\ burst = NoBursts

NextRoots ==
    \/ BeginDrainRoots
    \/ \E p \in Paths : ProcessEvent(p)
    \/ EndDrain
    \/ \E p \in EditPaths : ExternalDelete(p)
    \/ Tick

SpecRoots == InitRoots /\ [][NextRoots]_vars

----------------------------------------------------------------------------
(* Properties *)

\* the plan in sync_actions has been computed from the scans in scanned
PlanMade == pc # "boot" /\ config.mode # "dry_run"

CountIn(seq, src, dst) ==
    Cardinality({i \in 1..Len(seq) : seq[i].source = src /\ seq[i].target = dst})

CountSource(seq, src) ==
    Cardinality({i \in 1..Len(seq) : seq[i].source = src})

Forward(r) == CountIn(sync_actions.md_to_ipynb, Path("md", r), Path("ipynb", r))
Reverse(r) == CountIn(sync_actions.ipynb_to_md, Path("ipynb", r), Path("md", r))

\* all actions of the plan that touch the pair r, in either list
PairActions(r) ==
    Cardinality({i \in 1..Len(sync_actions.md_to_ipynb) :
                    sync_actions.md_to_ipynb[i].source.rel = r})
    + Cardinality({i \in 1..Len(sync_actions.ipynb_to_md) :
                    sync_actions.ipynb_to_md[i].source.rel = r})

BothScanned(r) == scanned.md[r].present /\ scanned.ipynb[r].present

ScanDiff(r) == Abs(scanned.md[r].mtime - scanned.ipynb[r].mtime)

\* the engine has just written or deleted a file
Touched == lastOp.op \in {"write", "delete"}

\* nothing is left for the watcher to report or to process
Quiescent ==
    /\ pc = "sleep"
    /\ pending_events = NoEvents
    /\ file_states = fs
    /\ obs_snap = fs

\* C1 (no oscillation): once the engine has created the mirror of a tree-A
\* file X that had none, and as long as no external edit happens, the engine
\* performs no further write or delete on X or on its mirror.
C1_NoFurtherAction ==
    \A X \in TreePaths("md") :
        (written[Mirror(X)].valid /\ written[Mirror(X)].fresh)
            => ~(Touched /\ lastOp.dst \in {X, Mirror(X)} /\ ~lastOp.fresh)

\* C2 (echo suppression): when the engine has written P and no external edit
\* has happened since, it does not write P's mirror from P within
\* sync_timeout of that write, whatever the conflict policy.
C2_NoWriteBack ==
    ~(/\ lastOp.op = "write"
      /\ written[lastOp.src].valid
      /\ now - written[lastOp.src].time < sync_timeout)

\* C3 (time-bounded echo guard): an event for P is swallowed by the
\* recently_synced entry of P only if it was enqueued less than sync_timeout
\* after P entered the set.
C3_GuardExpires ==
    (pc = "drain" /\ lastOp.op = "guard")
        => pending_copy[lastOp.src].timestamp - guard_time[lastOp.src] < sync_timeout

\* C4 (eventual propagation): under the newer policy, when the last external
\* edit rewrote a watched file and made it newer than its existing mirror
\* (by less than the proximity threshold or by more), and no conversion
\* failed, then once the watcher has nothing left to report or process the
\* mirror carries the edited file's mtime.
C4_EditPropagated ==
    (/\ config.conflict_resolution = "newer"
     /\ Quiescent
     /\ failures = 0
     /\ last_edit.valid
     /\ last_edit.kind = "write"
     /\ last_edit.live
     /\ last_edit.mirrored
     /\ last_edit.lead > 0)
        => /\ fs[Mirror(last_edit.path)].exists
           /\ fs[Mirror(last_edit.path)].mtime = fs[last_edit.path].mtime

C6_ForcedPrecedence ==
    PlanMade
        => \A r \in Rels :
              (BothScanned(r) /\ ScanDiff(r) >= CheckerThreshold(config)) =>
                 /\ config.conflict_resolution = "md"
                       => (Forward(r) = 1 /\ PairActions(r) = 1)
                 /\ config.conflict_resolution = "ipynb"
                       => (Reverse(r) = 1 /\ PairActions(r) = 1)

\* C7 (idempotence): after the initial plan has been executed without
\* conversion failure and without external edit, check_consistency returns
\* an empty plan.
C7_SecondPlanEmpty ==
    (pc = "start" /\ failures = 0 /\ edits = 0)
        => CheckConsistency(ScanDirectory("md", fs), ScanDirectory("ipynb", fs), config)
              = EmptyPlan

\* C8 (new-file propagation): a document present in one tree only appears
\* exactly once in the list towards the other tree, with its mirror as
\* target, and in no orphan list.
C8_NewFilePropagation ==
    PlanMade
        => \A r \in Rels :
              /\ (scanned.md[r].present /\ ~scanned.ipynb[r].present)
                    => /\ Forward(r) = 1
                       /\ CountSource(sync_actions.md_to_ipynb, Path("md", r)) = 1
                       /\ Path("md", r) \notin SeqRange(sync_actions.orphaned_md)
                                                \cup SeqRange(sync_actions.orphaned_ipynb)
              /\ (scanned.ipynb[r].present /\ ~scanned.md[r].present)
                    => /\ Reverse(r) = 1
                       /\ CountSource(sync_actions.ipynb_to_md, Path("ipynb", r)) = 1
                       /\ Path("ipynb", r) \notin SeqRange(sync_actions.orphaned_md)
                                                   \cup SeqRange(sync_actions.orphaned_ipynb)

C8_Witness ==
    /\ PlanMade
    /\ config.delete_orphaned
    /\ \E r1, r2 \in Rels :
          /\ scanned.md[r1].present /\ ~scanned.ipynb[r1].present
          /\ scanned.ipynb[r2].present /\ ~scanned.md[r2].present
          /\ Forward(r1) = 1
          /\ Reverse(r2) = 1

\* C9 (timestamps forced equal): right after a successful propagation write
\* the target's mtime equals the source's mtime.
C9_TargetMtimeIsSourceMtime ==
    lastOp.op = "write" => fs[lastOp.dst].mtime = fs[lastOp.src].mtime

C9_Witness ==
    /\ lastOp.op = "write"
    /\ lastOp.by = "live"
    /\ ~lastOp.fresh
    /\ fs[lastOp.src].mtime < now

\* C10 (same decision in engine and reconciler): for a mirrored pair, the
\* engine overwrites the mirror of a source exactly when the plan computed
\* on the same trees holds an action from that source to that mirror.
C10_SameDecision ==
    (/\ PlanMade
     /\ scanned.md = ScanDirectory("md", fs)
     /\ scanned.ipynb = ScanDirectory("ipynb", fs))
        => \A r \in Rels :
              BothScanned(r) =>
                 /\ Overwrites(Path("md", r), Path("ipynb", r), fs, config)
                       <=> Forward(r) = 1
                 /\ Overwrites(Path("ipynb", r), Path("md", r), fs, config)
                       <=> Reverse(r) = 1

\* C11 (debounce coalescing): after one or more created/modified
\* notifications for a path, with no deletion among them and no drain ended
\* since the first, the queue holds for that path the entry of the last
\* notification: its kind and its time.
C11_Coalesced ==
    \A p \in Paths :
        (burst[p].n >= 1 /\ ~burst[p].deleted)
            => pending_events[p] = Event(burst[p].kind, burst[p].last)

C11_Witness ==
    \E p \in Paths :
        /\ burst[p].n = 2
        /\ ~burst[p].deleted
        /\ burst[p].first < burst[p].last
        /\ pending_events[p] = Event(burst[p].kind, burst[p].last)

\* C12 (deletion wins in a burst): when a drain starts, a due entry whose
\* path received a deleted notification in a burst shorter than
\* debounce_delay has kind deleted, whether the deletion was notified before
\* or after the other events of the burst.
C12_DeletionWins ==
    [][(pc = "sleep" /\ pc' = "drain")
          => \A p \in DuePaths(pending_copy', current_time') :
                (burst'[p].deleted /\ burst'[p].last - burst'[p].first < debounce_delay)
                    => pending_copy'[p].type = "deleted"]_vars

\* the time at which the event of a queue entry was enqueued
EnqueueTime(e) ==
    IF e.type = "deleted" THEN e.timestamp + debounce_delay - 1 ELSE e.timestamp

\* C13 (quiet period): a drain executes a created/modified entry of a path
\* only when at least debounce_delay has elapsed since the last event
\* enqueued for that path, and an entry that is not due is still in the
\* queue, unchanged, when the drain ends.
C13_QuietPeriod ==
    [][\A p \in Paths :
          /\ (/\ pc = "drain"
               /\ p \in handled' \ handled
               /\ pending_copy[p].type \in {"created", "modified"})
                  => now - EnqueueTime(pending_events[p]) >= debounce_delay
          /\ (/\ pc = "drain"
               /\ pc' = "sleep"
               /\ pending_copy[p].type # "none"
               /\ p \notin DuePaths(pending_copy, current_time))
                  => pending_events'[p] = pending_events[p]]_vars

\* C14 (deletion priority): a deleted entry is due in the first drain that
\* runs after its enqueue, be it enqueued by an observer before the drain
\* started or by the poll of that drain itself: it does not wait for a
\* later drain.
C14_DeletionDueAtOnce ==
    pc = "drain"
        => \A p \in Paths :
              (/\ pending_copy[p].type = "deleted"
               /\ \/ EnqueueTime(pending_copy[p]) < current_time
                  \/ Change(p, "deleted") \in SeqRange(changed_files))
                  => p \in DuePaths(pending_copy, current_time)

\* C15 (deletion propagation): when a deleted action fires for a document
\* whose mirror exists, the mirror is removed if delete_orphaned is set and
\* left as it is otherwise; every other file of the two trees is unchanged.
C15_DeletionPropagation ==
    [][\A p \in Paths :
          (/\ pc = "drain"
           /\ p \in handled' \ handled
           /\ pending_copy[p].type = "deleted"
           /\ fs[Mirror(p)].exists)
              => fs' = [fs EXCEPT ![Mirror(p)] =
                           IF config.delete_orphaned THEN NoFile ELSE fs[Mirror(p)]]]_vars

C15_Witness ==
    /\ pc = "drain"
    /\ config.delete_orphaned
    /\ lastOp.op = "delete"
    /\ lastOp.by = "live"
    /\ pending_copy[lastOp.src].type = "deleted"
    /\ ~fs[lastOp.dst].exists

\* the entries of changed_files for a path, of a given kind
Reported(changed, p, t) ==
    Cardinality({i \in 1..Len(changed) : changed[i] = Change(p, t)})

PollRuns == last_poll_time' # last_poll_time

C17_PollModified ==
    [][PollRuns =>
          \A p \in Paths :
             (fs[p].exists /\ file_states[p].exists) =>
                (Reported(changed_files', p, "modified") = 1
                    <=> (fs[p].mtime # file_states[p].mtime
                            \/ fs[p].size # file_states[p].size))]_vars

\* C18 (no bypass of the queue): a step that delivers notifications changes
\* neither a file nor recently_synced, and the engine changes a file only in
\* the initial reconciliation or in a drain, while executing an entry of
\* the queue that is due.
C18_NoBypass ==
    [][/\ burst' # burst => (fs' = fs /\ recently_synced' = recently_synced)
       /\ ((fs' # fs \/ recently_synced' # recently_synced) /\ edits' = edits)
             => \/ pc = "initial"
                \/ /\ pc = "drain"
                   /\ \E p \in DuePaths(pending_copy, current_time) \ handled :
                         handled' = handled \cup {p}]_vars

C18_Witness ==
    /\ pc = "sleep"
    /\ \E p \in Paths :
          /\ burst[p].n >= 1
          /\ pending_events[p].type = "created"
          /\ fs[p].exists
          /\ ~fs[Mirror(p)].exists

\* C19 (startup ordering): once the observers are started, the poll
\* baseline is recorded or a live event is processed, the plan of the
\* initial reconciliation has been computed and none of its actions is left
\* to execute.
C19_StartupOrder ==
    (\/ watching
     \/ file_states # NoFiles
     \/ lastOp.by = "live"
     \/ pc \in {"sleep", "drain"})
        => /\ PlanMade
           /\ todo = << >>
           /\ pc \notin {"initial", "crashed"}

C19_Witness ==
    /\ watching
    /\ lastOp.by = "live"
    /\ Len(sync_actions.md_to_ipynb) + Len(sync_actions.ipynb_to_md) >= 1
    /\ todo = << >>

\* C20 (steady-state failure isolation): a failure while the pending action
\* of one path is executed leaves the loop in the same drain with that path
\* counted as processed, the drain ends only when every due entry of its
\* copy has been processed, and the loop then sleeps for the next cycle;
\* the watch loop never terminates.
C20_FailureIsolation ==
    [][/\ (pc = "drain" /\ lastOp'.op = "fail" /\ lastOp' # lastOp)
            => /\ pc' = "drain"
               /\ lastOp'.by = "live"
               /\ handled' = handled \cup {lastOp'.src}
       /\ (pc = "drain" /\ pc' # "drain")
            => /\ pc' = "sleep"
               /\ wake' = now + watch_interval
               /\ DuePaths(pending_copy, current_time) \subseteq handled
       /\ pc \in {"sleep", "drain"} => pc' \in {"sleep", "drain"}]_vars

C20_Witness ==
    /\ pc = "drain"
    /\ lastOp.op = "fail"
    /\ lastOp.by = "live"
    /\ lastOp.src \in handled
    /\ (DuePaths(pending_copy, current_time) \ handled) # {}

\* C21 (no silent retry): the action of a path is executed at most once in
\* a drain, failed or not, and only for an entry of the copy of the queue;
\* the entry of every executed path is gone from the queue when the drain
\* ends; an entry enters the queue only with a notification for its path.
\* So a failed action is executed again only after a new event for its
\* path, and then through the same steps as any other event.
C21_NoSilentRetry ==
    [][/\ (pc = "drain" /\ lastOp'.by = "live")
            => /\ lastOp'.src \notin handled
               /\ handled' = handled \cup {lastOp'.src}
               /\ pending_copy[lastOp'.src].type # "none"
       /\ (pc = "drain" /\ pc' = "sleep")
            => \A p \in handled : pending_events'[p] = NoEvent
       /\ (pc = "sleep" /\ pc' = "drain") => pending_copy' = pending_events'
       /\ \A p \in Paths :
             (pending_events'[p] # pending_events[p] /\ pending_events'[p].type # "none")
                => /\ burst'[p].last = now
                   /\ burst'[p].kind = pending_events'[p].type]_vars

C21_Witness ==
    /\ pc = "drain"
    /\ lastOp.op = "fail"
    /\ lastOp.by = "live"
    /\ lastOp.src \in handled
    /\ DuePaths(pending_copy, current_time) \subseteq handled
    /\ pending_events[lastOp.src] = pending_copy[lastOp.src]

\* C22 (initial-reconciliation failure isolation): a failure on one action
\* of the initial plan, with actions of the plan still to run, leaves
\* perform_initial_sync running so that the remaining actions are executed.
C22_InitialFailureIsolated ==
    (lastOp.op = "fail" /\ lastOp.by = "initial" /\ todo # << >>)
        => pc = "initial"

\* C23 (scan robustness): the scans and the reconciliation that consumes
\* them do not fail, and every entry of a snapshot has a defined
\* modification time (a file that is gone when its information is read is
\* left out).
C23_ScanRobust ==
    /\ lastOp.by # "scan"
    /\ \A t \in Trees, r \in Rels :
          scanned[t][r].present => scanned[t][r].mtime # NoMtime

\* C24 (ignored paths are never propagated): the engine never writes or
\* deletes the mirror of a file that an ignore pattern matches, neither in
\* the initial reconciliation nor in a drain.
C24_IgnoredNeverPropagated ==
    Touched => ~IsIgnored(lastOp.src)

\* C25 (pending-action lifecycle): an entry of the queue changes only by
\* being replaced with the entry of a notification delivered for its path,
\* or by being removed after it was due in the running drain and its own
\* action was executed.
C25_Lifecycle ==
    [][\A p \in Paths :
          (pending_events[p].type # "none" /\ pending_events'[p] # pending_events[p])
             => \/ /\ pending_events'[p].type # "none"
                   /\ burst'[p].last = now
                   /\ burst'[p].kind = pending_events'[p].type
                \/ /\ pending_events'[p] = NoEvent
                   /\ p \in handled
                   /\ p \in DuePaths(pending_copy, current_time)
                   /\ pending_copy[p] = pending_events[p]]_vars

\* C26 (enqueue/drain interleaving): an event enqueued for a path while the
\* drain holds the earlier due entry of that path in its copy is still in the
\* queue when the drain has finished.
C26_NewEventKept ==
    [][(pc = "drain" /\ pc' = "sleep")
          => \A p \in DuePaths(pending_copy, current_time) :
                (pending_events[p].type # "none" /\ pending_events[p] # pending_copy[p])
                   => pending_events'[p] = pending_events[p]]_vars

\* C27 (cooperative cancellation): when the program stops on a signal, the
\* observers are stopped and no conversion of the running drain is cut
\* short: the target of a propagation is never left part-way written.
C27_CooperativeStop ==
    [][pc' = "stopped"
          => /\ ~watching'
             /\ lastOp'.op # "partial"]_vars

C29_WriteFreeModes ==
    [][/\ config.mode \in {"check_only", "dry_run"}
            => /\ fs' # fs => edits' # edits
               /\ pc = "boot"
                    => /\ scanned' = [md |-> ScanDirectory("md", fs),
                                      ipynb |-> ScanDirectory("ipynb", fs)]
                       /\ sync_actions' = CheckConsistency(scanned'.md, scanned'.ipynb, config)
       /\ config.mode = "sync_once"
            => /\ ~watching'
               /\ pc = "start" => pc' = "exited"]_vars

\* C30 (orphan detection): with delete_orphaned, the orphan list of a tree
\* holds exactly the scanned documents of that tree that have no mirror in
\* the other scan and no action of the plan that propagates them; without
\* delete_orphaned both orphan lists are empty.
C30_OrphanDetection ==
    PlanMade =>
        /\ \A r \in Rels :
              /\ Path("md", r) \in SeqRange(sync_actions.orphaned_md)
                    <=> /\ config.delete_orphaned
                        /\ scanned.md[r].present
                        /\ ~scanned.ipynb[r].present
                        /\ CountSource(sync_actions.md_to_ipynb, Path("md", r)) = 0
              /\ Path("ipynb", r) \in SeqRange(sync_actions.orphaned_ipynb)
                    <=> /\ config.delete_orphaned
                        /\ scanned.ipynb[r].present
                        /\ ~scanned.md[r].present
                        /\ CountSource(sync_actions.ipynb_to_md, Path("ipynb", r)) = 0
        /\ ~config.delete_orphaned
              => (sync_actions.orphaned_md = << >> /\ sync_actions.orphaned_ipynb = << >>)

C30_Witness ==
    /\ PlanMade
    /\ config.delete_orphaned
    /\ scanned.md["x"].present
    /\ ~scanned.ipynb["x"].present
    /\ scanned.ipynb["y"].present
    /\ ~scanned.md["y"].present
    /\ sync_actions.orphaned_md = << >>
    /\ sync_actions.orphaned_ipynb = << >>


\* C31: under the newer policy a live write never replaces an existing
\* mirror whose mtime is greater than or equal to the source's, nor one whose
\* mtime is within the proximity threshold of the source's; and a live
\* synchronisation never skips a mirror that does not exist, whatever the
\* policy
C31_MirrorProtected ==
    [][/\ (/\ lastOp'.by = "live"
           /\ lastOp'.op = "write"
           /\ lastOp' # lastOp
           /\ fs[lastOp'.dst].exists
           /\ config.conflict_resolution = "newer")
          => (/\ fs[lastOp'.dst].mtime < fs[lastOp'.src].mtime
              /\ ~(Abs(fs[lastOp'.src].mtime - fs[lastOp'.dst].mtime)
                      < EngineThreshold(config)))
       /\ (/\ lastOp'.by = "live"
           /\ lastOp'.op = "skip"
           /\ lastOp' # lastOp)
          => fs[lastOp'.dst].exists]_vars


\* C32: the echo guard is set before the write: whenever a path was last
\* modified by the engine and an event for it is waiting in the queue, not
\* yet handled, the path is a member of recently_synced
C32_GuardCoversEcho ==
    \A p \in Paths :
        (/\ written[p].valid
         /\ pending_events[p] # NoEvent
         /\ p \notin handled)
        => p \in recently_synced


\* C33: deletion handling never removes the mirror of a live file: a
\* deleted action for a path removes the path's mirror only if the path
\* itself is absent at that moment
C33_LiveFileKeepsMirror ==
    [][(/\ lastOp'.op = "delete"
        /\ lastOp'.by = "live"
        /\ fs[lastOp'.dst].exists
        /\ ~fs'[lastOp'.dst].exists)
       => ~fs[lastOp'.src].exists]_vars


\* C34: a genuine second deletion is propagated: once the document has
\* been removed, created again and removed again, with delete_orphaned a
\* delete notification for it, its mirror existing and no action waiting
\* for it, enqueues a deleted action although the path is still in
\* processed_deletes
C34_SecondDeletion ==
    [][\A p \in BurstPaths :
          (/\ config.delete_orphaned
           /\ edits = MaxAgainEdits
           /\ burst'[p] # burst[p]
           /\ burst'[p].kind = "deleted"
           /\ ~fs[p].exists
           /\ fs[Mirror(p)].exists
           /\ pending_events[p] = NoEvent)
          => pending_events'[p].type = "deleted"]_vars


\* C35: deletion handling only ever deletes a file of the opposite tree:
\* the file a deleted action removes lies in the tree other than the one
\* that contained the deleted path, and a deleted action for a path that
\* is not a document of its own tree removes nothing
C35_OppositeTreeOnly ==
    [][(/\ lastOp'.op = "delete"
        /\ fs' # fs)
       => (/\ lastOp'.src.tree = GetFileExtension(lastOp'.src)
           /\ lastOp'.dst.tree = OtherTree(lastOp'.src.tree))]_vars


\* C36: the initial reconciliation never deletes a file: once the plan is
\* made both of its orphan lists are empty, whatever the two scans and
\* the configuration (every document without a mirror is scheduled), and
\* no step of perform_initial_sync removes a file, delete_orphaned or not
C36_NoInitialDeletion ==
    [][/\ pc' \in {"initial", "start"}
            => (/\ sync_actions'.orphaned_md = << >>
                /\ sync_actions'.orphaned_ipynb = << >>)
       /\ \A p \in Paths : fs[p].exists => fs'[p].exists]_vars

C36_Witness ==
    /\ pc = "start"
    /\ config.delete_orphaned
    /\ scanned.md["x"].present
    /\ ~scanned.ipynb["x"].present
    /\ scanned.ipynb["y"].present
    /\ ~scanned.md["y"].present
    /\ \A p \in Paths : fs[p].exists


\* C37: skips have no effect: when the engine does not propagate a created
\* or modified event because of the conflict policy, the proximity
\* threshold, a newer mirror, an unsupported file type or a file outside
\* its tree, the call leaves both trees (contents and mtimes) and
\* recently_synced unchanged
C37_SkipsHaveNoEffect ==
    [][(/\ lastOp' # lastOp
        /\ lastOp'.by = "live"
        /\ lastOp'.op \in {"skip", "unsupported", "outside"})
       => (/\ fs' = fs
           /\ recently_synced' = recently_synced)]_vars

\* the engine has skipped an event for a document whose mirror is newer
C37_Witness ==
    /\ lastOp.op = "skip"
    /\ lastOp.by = "live"
    /\ config.conflict_resolution = "newer"
    /\ fs[lastOp.dst].exists
    /\ fs[lastOp.dst].mtime > fs[lastOp.src].mtime
    /\ recently_synced = {}


\* C39: mirror mapping round trip: for every document the engine has
\* propagated, whatever the accepted spelling of its extension, the
\* reconciler and the engine compute the same mirror, the mirror keeps the
\* relative path and lies in the other tree, and the mirror of the mirror
\* is the document itself
C39_MirrorRoundTrip ==
    (lastOp.op = "write" /\ lastOp.by = "live")
    => (/\ lastOp.dst = EngineMirror(lastOp.src)
        /\ CheckerMirror(lastOp.src) = EngineMirror(lastOp.src)
        /\ lastOp.dst.rel = lastOp.src.rel
        /\ lastOp.dst.tree = OtherTree(lastOp.src.tree)
        /\ EngineMirror(lastOp.dst) = lastOp.src
        /\ CheckerMirror(lastOp.dst) = lastOp.src)


\* C38: the poll never reports a file that still exists as deleted,
\* whatever the two configured directories (also when the path of one is
\* a prefix of the path of the other): every path a poll reports as
\* deleted is absent from disk, and a poll leaves the snapshot entry of
\* every file that still exists in place
C38_PollDeletesOnlyAbsent ==
    [][PollRuns =>
          \A p \in Paths :
             /\ Reported(changed_files', p, "deleted") > 0 => ~fs[p].exists
             /\ (file_states[p].exists /\ fs[p].exists) => file_states'[p].exists]_vars

====
